---- MODULE Spec2Model ----
(***************************************************************************)
(* Model of the training loop of train.py (the __main__ block): the epoch  *)
(* loop with tolerance-based early stopping, the warm-restart bookkeeping  *)
(* of the cosine schedule (Ti, mult, Tcur), the evaluation round and the   *)
(* best-result selection.                                                  *)
(*                                                                         *)
(* Real numbers (accuracy, loss) are fixed-point pairs <<whole, frac>>     *)
(* with frac counted in units of 10^-(DoublePrecision+1), one digit finer  *)
(* than what json.dumps(..., double_precision=5) keeps.                    *)
(***************************************************************************)
EXTENDS Integers, Sequences, FiniteSets, TLC

(* ------------------------------ bounds --------------------------------- *)
MaxEpochs == 5
MaxTolerance == 1
MaxLogInterval == 2
MaxBatches == 2
LongEpochs == 36

(* ------------------------- program constants --------------------------- *)
DoublePrecision == 5
BestValLossInit == 100000
BestValAccInit == 0
TiInit == 1
MultInit == 2
TcurInit == 0
Unbound == -1
None == <<>>

(* ------------------------ fixed-point numbers -------------------------- *)
RECURSIVE Pow(_, _)
Pow(b, n) == IF n = 0 THEN 1 ELSE b * Pow(b, n - 1)

Scale == Pow(10, DoublePrecision + 1)
Quantum == Scale \div Pow(10, DoublePrecision)

Num(w, f) == <<w, f>>
LT(a, b) == a[1] < b[1] \/ (a[1] = b[1] /\ a[2] < b[2])
GT(a, b) == LT(b, a)

\* a float as json.dumps(..., double_precision=5) writes it
RoundNum(x) ==
    LET r == ((x[2] + Quantum \div 2) \div Quantum) * Quantum
    IN  IF r >= Scale THEN Num(x[1] + 1, 0) ELSE Num(x[1], r)

\* the snapshot string of lines 282-287, as the values it holds
Dumps(e, l, vm, tm) ==
    [epoch |-> e,
     val_loss |-> RoundNum(l),
     val_metric |-> [accuracy |-> RoundNum(vm.accuracy)],
     test_metric |-> [accuracy |-> RoundNum(tm.accuracy)]]

(* --------------------------- input domains ----------------------------- *)
Schedules == {"constant", "cosine"}
Accuracies == {Num(0, 0), Num(0, 6 * (Scale \div 10)), Num(0, 6 * (Scale \div 10) + 4)}
Losses == {Num(0, 8 * (Scale \div 10)), Num(0, 8 * (Scale \div 10) + 4), Num(BestValLossInit, 0)}
TestAccuracies == {Num(0, 5 * (Scale \div 10)), Num(0, 7 * (Scale \div 10))}
Outcomes == [loss : Losses, acc : Accuracies, test : TestAccuracies]
LongOutcomes == {o \in Outcomes : o.test = Num(0, 5 * (Scale \div 10))
                     /\ o.acc # Num(0, 6 * (Scale \div 10) + 4)
                     /\ o.loss # Num(0, 8 * (Scale \div 10) + 4)}

ArgsSpace == [epochs : 0..MaxEpochs,
              tolerance : (-1)..MaxTolerance,
              log_interval : 1..MaxLogInterval,
              lr_schedule : Schedules]
LongArgsSpace == [epochs : {LongEpochs},
                  tolerance : {0, LongEpochs},
                  log_interval : {1},
                  lr_schedule : {"cosine"}]

VARIABLES
    args,           \* the parsed command line: epochs, tolerance, log_interval, lr_schedule
    n_batches,      \* length of problem.iterate(mode='train', ...)
    pc,             \* position in the __main__ block
    epoch,          \* the for-loop variable
    batch,          \* index of the next training batch of the epoch
    tolerance, best_val_loss, best_val_acc, best_result,
    loss, val_metric, test_metric,
    Ti, mult, Tcur,
    mode,           \* model.training: "train" or "eval"
    lr_call,        \* the last call of lr_scheduler: its progress argument and period
    opt,            \* optimizer calls so far: set_lr, zero_grad, step
    out,            \* records printed so far: epoch records, evaluation records, final
    opt_calls,      \* the optimizer calls made so far, in order
    \* history variables (not program state)
    h_rounds,       \* evaluation rounds run so far
    h_improved,     \* value of h_rounds after the last round that replaced best_result
    h_trained,      \* epochs whose training has started
    h_advances,     \* end-of-epoch executions of the cyclic bookkeeping
    h_restarts,     \* restarts taken
    h_period,       \* epochs completed since the last restart (or since the start)
    h_fwd,          \* model.training during the last training batch and the last evaluate
    h_opt           \* the best evaluation round so far: highest accuracy, then lowest
                    \* loss, then earliest

vars == <<args, n_batches, pc, epoch, batch, tolerance, best_val_loss, best_val_acc,
          best_result, loss, val_metric, test_metric, Ti, mult, Tcur, mode, lr_call,
          opt, out, h_rounds, h_improved, h_trained, h_advances, h_restarts, h_period,
          opt_calls, h_fwd, h_opt>>

prog == <<tolerance, best_val_loss, best_val_acc, best_result>>
evalvars == <<loss, val_metric, test_metric>>
cyclic == <<Ti, mult, Tcur>>
hist_eval == <<h_rounds, h_improved>>
hist_cyc == <<h_advances, h_restarts, h_period>>
calls == <<opt_calls, h_fwd, h_opt>>

(* ------------------------------- Init ---------------------------------- *)
InitWith(space, batches) ==
    /\ args \in space
    /\ n_batches \in batches
    /\ pc = "for"
    /\ epoch = 0
    /\ batch = 0
    /\ val_metric = None
    /\ tolerance = 0
    /\ best_val_loss = Num(BestValLossInit, 0)
    /\ best_val_acc = Num(BestValAccInit, 0)
    /\ best_result = None
    /\ loss = None
    /\ test_metric = None
    /\ IF args.lr_schedule = "cosine"
       THEN Ti = TiInit /\ mult = MultInit /\ Tcur = TcurInit
       ELSE Ti = Unbound /\ mult = Unbound /\ Tcur = Unbound
    /\ mode = "train"
    /\ lr_call = None
    /\ opt = [set_lr |-> 0, zero_grad |-> 0, step |-> 0]
    /\ out = [epochs |-> 0, evals |-> 0, final |-> None]
    /\ h_rounds = 0
    /\ h_improved = 0
    /\ h_trained = 0
    /\ h_advances = 0
    /\ h_restarts = 0
    /\ h_period = 0
    /\ opt_calls = <<>>
    /\ h_fwd = [train |-> None, eval |-> None]
    /\ h_opt = None

Init == InitWith(ArgsSpace, 1..MaxBatches)

InitLong == InitWith(LongArgsSpace, {1})

(* ------------------------------ guards --------------------------------- *)
\* line 222
ShouldStop_AtLimit(tol, limit) == tol >= limit

ShouldStop_Late(tol, limit) == tol > limit + 1

ShouldStop(tol, limit) == tol > limit

\* line 264
IsRestart_Early(tcur, ti) == (tcur + 1) % ti = 0

IsRestart_AtZero(tcur, ti) == tcur % ti = 0

IsRestart(tcur, ti) == tcur % ti = 0 /\ tcur > 0

\* line 271
IsEvalEpoch_Shifted(e, interval) == (e + 1) % interval = 0

IsEvalEpoch(e, interval) == e % interval = 0

\* line 278
Improved_LooseTie(acc, l, bacc, bloss) == GT(acc, bacc) \/ (acc = bacc /\ ~GT(l, bloss))

Improved_AccuracyOnly(acc, l, bacc, bloss) == GT(acc, bacc)

Improved(acc, l, bacc, bloss) == GT(acc, bacc) \/ (acc = bacc /\ LT(l, bloss))

\* lines 279 and 289
NextTolerance_NoReset(tol, improved) == tol + 1

NextTolerance(tol, improved) == IF improved THEN 0 ELSE tol + 1

\* line 227: model.train()
TrainModeSwitch_Missing == mode

TrainModeSwitch == "train"

\* line 272: model.eval()
EvalModeSwitch == "eval"

(* ------------------------------ actions -------------------------------- *)
\* range(args.epochs) is exhausted: the for loop ends
Exhausted ==
    /\ pc = "for"
    /\ epoch >= args.epochs
    /\ pc' = "after"
    /\ UNCHANGED <<calls, args, n_batches, epoch, batch, prog, evalvars, cyclic, mode, lr_call,
                   opt, out, hist_eval, h_trained, hist_cyc>>

EarlyStop_Abort ==
    /\ pc = "for"
    /\ epoch < args.epochs
    /\ ShouldStop(tolerance, args.tolerance)
    /\ pc' = "done"
    /\ UNCHANGED <<calls, args, n_batches, epoch, batch, prog, evalvars, cyclic, mode,
                   lr_call, opt, out, hist_eval, h_trained, hist_cyc>>

\* lines 222-223: break
EarlyStop ==
    /\ pc = "for"
    /\ epoch < args.epochs
    /\ ShouldStop(tolerance, args.tolerance)
    /\ pc' = "after"
    /\ UNCHANGED <<calls, args, n_batches, epoch, batch, prog, evalvars, cyclic, mode, lr_call,
                   opt, out, hist_eval, h_trained, hist_cyc>>

\* lines 224-227: the epoch starts, model.train()
StartEpoch ==
    /\ pc = "for"
    /\ epoch < args.epochs
    /\ ~ShouldStop(tolerance, args.tolerance)
    /\ mode' = TrainModeSwitch
    /\ batch' = 0
    /\ h_trained' = h_trained + 1
    /\ pc' = "train"
    /\ UNCHANGED <<calls, args, n_batches, epoch, prog, evalvars, cyclic, lr_call, opt, out,
                   hist_eval, hist_cyc>>

\* Problem.iterate: the epoch_progress of batch b of n, as a fraction
EpochProgress(b, n) == [num |-> b, den |-> n]

\* line 231: Tcur + epoch_progress
CosinePosition(tcur, ep) == [num |-> tcur * ep.den + ep.num, den |-> ep.den]

\* line 236: (epoch + epoch_progress) / args.epochs
RunProgress_NoEpoch(e, ep, total) == [num |-> ep.num, den |-> ep.den * total]

RunProgress(e, ep, total) == [num |-> e * ep.den + ep.num, den |-> ep.den * total]

\* lines 30-32 and 232: LRSchedule.set_lr(optimizer, lr)
SetLrCalls == <<"set_lr">>

\* lines 35-47: train_step
TrainStepCalls_StepFirst == <<"step", "zero_grad">>

TrainStepCalls == <<"zero_grad", "step">>

\* lines 50-61: evaluate makes no optimizer call
EvaluateCalls == <<>>

\* lines 228-246: one training batch
TrainBatch ==
    /\ pc = "train"
    /\ batch < n_batches
    /\ lr_call' = IF args.lr_schedule = "cosine"
                  THEN LET p == CosinePosition(Tcur, EpochProgress(batch, n_batches))
                       IN  <<[kind |-> "cosine", num |-> p.num, den |-> p.den,
                              epochs |-> Ti]>>
                  ELSE LET p == RunProgress(epoch, EpochProgress(batch, n_batches),
                                            args.epochs)
                       IN  <<[kind |-> args.lr_schedule, num |-> p.num, den |-> p.den,
                              epochs |-> Unbound]>>
    /\ opt' = [set_lr |-> opt.set_lr + 1,
               zero_grad |-> opt.zero_grad + 1,
               step |-> opt.step + 1]
    /\ opt_calls' = opt_calls \o SetLrCalls \o TrainStepCalls
    /\ h_fwd' = [h_fwd EXCEPT !.train = <<mode>>]
    /\ batch' = batch + 1
    /\ UNCHANGED <<args, n_batches, pc, epoch, prog, evalvars, cyclic, mode, out,
                   hist_eval, h_trained, hist_cyc, h_opt>>

\* lines 264-268: restart, or one more epoch in the period
CyclicBookkeeping ==
    /\ IF IsRestart(Tcur, Ti)
       THEN /\ Ti' = Ti * mult
            /\ Tcur' = 0
            /\ h_restarts' = h_restarts + 1
            /\ h_period' = 0
       ELSE /\ Tcur' = Tcur + 1
            /\ Ti' = Ti
            /\ h_restarts' = h_restarts
            /\ h_period' = h_period + 1
    /\ mult' = mult
    /\ h_advances' = h_advances + 1

AdvanceCyclic_EvalOnly ==
    /\ pc = "train"
    /\ batch = n_batches
    /\ args.lr_schedule = "cosine"
    /\ out' = [out EXCEPT !.epochs = @ + 1]
    /\ IF epoch % args.log_interval = 0
       THEN CyclicBookkeeping
       ELSE UNCHANGED <<cyclic, hist_cyc>>
    /\ pc' = "eval"
    /\ UNCHANGED <<calls, args, n_batches, epoch, batch, prog, evalvars, mode, lr_call, opt,
                   hist_eval, h_trained>>

\* lines 255-268 under the cosine schedule: epoch record, then the bookkeeping
AdvanceCyclic ==
    /\ pc = "train"
    /\ batch = n_batches
    /\ args.lr_schedule = "cosine"
    /\ out' = [out EXCEPT !.epochs = @ + 1]
    /\ CyclicBookkeeping
    /\ pc' = "eval"
    /\ UNCHANGED <<calls, args, n_batches, epoch, batch, prog, evalvars, mode, lr_call, opt,
                   hist_eval, h_trained>>

\* lines 255-263 under any other schedule: epoch record only
SkipCyclic ==
    /\ pc = "train"
    /\ batch = n_batches
    /\ args.lr_schedule # "cosine"
    /\ out' = [out EXCEPT !.epochs = @ + 1]
    /\ pc' = "eval"
    /\ UNCHANGED <<calls, args, n_batches, epoch, batch, prog, evalvars, cyclic, mode, lr_call,
                   opt, hist_eval, h_trained, hist_cyc>>

\* history only: round a beats round b, higher accuracy first, then lower loss
Better(a, b) == GT(a.acc, b.acc) \/ (a.acc = b.acc /\ LT(a.loss, b.loss))

\* lines 271-298: an evaluation round with outcome o, then the next loop index
EvaluateRound(outcomes) ==
    /\ pc = "eval"
    /\ IsEvalEpoch(epoch, args.log_interval)
    /\ \E o \in outcomes :
         /\ mode' = EvalModeSwitch
         /\ loss' = o.loss
         /\ val_metric' = <<[accuracy |-> o.acc]>>
         /\ test_metric' = <<[accuracy |-> o.test]>>
         /\ tolerance' = NextTolerance(tolerance,
                                        Improved(o.acc, o.loss, best_val_acc, best_val_loss))
         /\ IF Improved(o.acc, o.loss, best_val_acc, best_val_loss)
            THEN /\ best_val_loss' = o.loss
                 /\ best_val_acc' = o.acc
                 /\ best_result' = <<Dumps(epoch, o.loss, [accuracy |-> o.acc],
                                           [accuracy |-> o.test])>>
                 /\ h_improved' = h_rounds + 1
            ELSE /\ UNCHANGED <<best_val_loss, best_val_acc, best_result, h_improved>>
         /\ h_opt' = IF h_opt = None \/ Better(o, h_opt[1])
                      THEN <<[epoch |-> epoch, loss |-> o.loss, acc |-> o.acc,
                              test |-> o.test]>>
                      ELSE h_opt
    /\ opt_calls' = opt_calls \o EvaluateCalls \o EvaluateCalls
    /\ h_fwd' = [h_fwd EXCEPT !.eval = <<mode'>>]
    /\ h_rounds' = h_rounds + 1
    /\ out' = [out EXCEPT !.evals = @ + 1]
    /\ epoch' = epoch + 1
    /\ pc' = "for"
    /\ UNCHANGED <<args, n_batches, batch, cyclic, lr_call, opt, h_trained, hist_cyc>>

\* line 271 false: no evaluation in this epoch
SkipEvaluate ==
    /\ pc = "eval"
    /\ ~IsEvalEpoch(epoch, args.log_interval)
    /\ epoch' = epoch + 1
    /\ pc' = "for"
    /\ UNCHANGED <<calls, args, n_batches, batch, prog, evalvars, cyclic, mode, lr_call,
                   opt, out, hist_eval, h_trained, hist_cyc>>

\* lines 300-302: the final print
Finish ==
    /\ pc = "after"
    /\ out' = [out EXCEPT !.final = <<best_result>>]
    /\ pc' = "done"
    /\ UNCHANGED <<calls, args, n_batches, epoch, batch, prog, evalvars, cyclic, mode, lr_call,
                   opt, hist_eval, h_trained, hist_cyc>>

Evaluate == EvaluateRound(Outcomes)

EvaluateLong == EvaluateRound(LongOutcomes)

Next ==
    \/ Exhausted
    \/ EarlyStop
    \/ StartEpoch
    \/ TrainBatch
    \/ AdvanceCyclic
    \/ SkipCyclic
    \/ Evaluate
    \/ SkipEvaluate
    \/ Finish

Spec == Init /\ [][Next]_vars

\* the interpreter keeps running the single thread of __main__
SpecFair == Init /\ [][Next]_vars /\ WF_vars(Next)

NextLong ==
    \/ Exhausted
    \/ EarlyStop
    \/ StartEpoch
    \/ TrainBatch
    \/ AdvanceCyclic
    \/ EvaluateLong
    \/ Finish

SpecLong == InitLong /\ [][NextLong]_vars

(* --------------------- the end-to-end scenario ------------------------- *)
\* validation accuracy and loss of epochs 0..3; a later epoch repeats the last
ScenarioAccuracies ==
    <<Num(0, 5 * (Scale \div 10)), Num(0, 6 * (Scale \div 10)),
      Num(0, 6 * (Scale \div 10)), Num(0, 6 * (Scale \div 10))>>

ScenarioLosses ==
    <<Num(1, 0), Num(0, 8 * (Scale \div 10)),
      Num(0, 8 * (Scale \div 10)), Num(0, 9 * (Scale \div 10))>>

ScenarioAt(seq, e) == IF e + 1 <= Len(seq) THEN seq[e + 1] ELSE seq[Len(seq)]

ScenarioOutcomes ==
    [loss : {ScenarioAt(ScenarioLosses, epoch)},
     acc : {ScenarioAt(ScenarioAccuracies, epoch)},
     test : TestAccuracies]

ScenarioArgsSpace == [epochs : {5},
                      tolerance : {1},
                      log_interval : {1},
                      lr_schedule : Schedules]

InitScenario == InitWith(ScenarioArgsSpace, 1..MaxBatches)

EvaluateScenario == EvaluateRound(ScenarioOutcomes)

NextScenario ==
    \/ EarlyStop
    \/ StartEpoch
    \/ TrainBatch
    \/ AdvanceCyclic
    \/ SkipCyclic
    \/ EvaluateScenario
    \/ Finish

SpecScenario == InitScenario /\ [][NextScenario]_vars

(* =============================== claims ================================ *)
RoundsSinceImprovement == h_rounds - h_improved

EvalStep == h_rounds' = h_rounds + 1

Replaced == best_result' # best_result

\* C1: for every toleranceLimit T >= 0 the run never has more than T+1
\* evaluation rounds behind it since the last improving round (or since the
\* start when no round improved), and it never starts training more than
\* maxEpochs epochs.
C1_TerminationBound ==
    /\ args.tolerance >= 0 => RoundsSinceImprovement <= args.tolerance + 1
    /\ h_trained <= args.epochs

C1_Witness ==
    /\ pc = "done"
    /\ args.tolerance = 1
    /\ h_improved > 0
    /\ RoundsSinceImprovement = args.tolerance + 1
    /\ epoch < args.epochs

\* C2: at the head of every epoch with index < maxEpochs the epoch is trained
\* if and only if toleranceCount <= toleranceLimit (so also when they are
\* equal); once toleranceCount > toleranceLimit there, or the loop is over,
\* no training batch, cyclic advance or evaluation happens any more.
C2_StrictGuard ==
    [][ /\ (pc = "for" /\ epoch < args.epochs)
            => ((pc' = "train" /\ h_trained' = h_trained + 1)
                    <=> tolerance <= args.tolerance)
        /\ (pc = "for" /\ epoch < args.epochs /\ tolerance = args.tolerance)
            => pc' = "train"
        /\ ((pc = "for" /\ epoch < args.epochs /\ tolerance > args.tolerance)
                \/ pc \in {"after", "done"})
            => /\ pc' \in {"after", "done"}
               /\ UNCHANGED <<opt, lr_call, cyclic, h_advances, h_rounds, h_trained,
                              epoch, prog, evalvars>>
      ]_vars

C2_Witness ==
    /\ pc = "train"
    /\ batch = n_batches
    /\ tolerance = args.tolerance
    /\ tolerance > 0

\* C3: an evaluation round replaces bestResult exactly when its accuracy is
\* higher than the best accuracy, or equal to it with a strictly lower
\* validation loss; an equal-accuracy equal-loss round and a lower-accuracy
\* round (even with a lower loss) never replace it.
C3_ImprovementRule ==
    [][ EvalStep =>
          LET acc == val_metric'[1].accuracy
              l == loss'
          IN  /\ Replaced <=> (GT(acc, best_val_acc)
                                 \/ (acc = best_val_acc /\ LT(l, best_val_loss)))
              /\ (acc = best_val_acc /\ l = best_val_loss) => ~Replaced
              /\ LT(acc, best_val_acc) => ~Replaced
      ]_vars

C3_Witness ==
    /\ h_rounds = 3
    /\ h_improved = 2
    /\ best_val_acc = Num(BestValAccInit, 0)
    /\ best_result # None

\* C4: every evaluation round sets toleranceCount to 0 if it replaces
\* bestResult and adds exactly 1 to it otherwise, nothing else changes it, and
\* toleranceCount always equals the number of evaluation rounds since the last
\* improvement.
C4_ToleranceAccounting ==
    /\ [](tolerance = RoundsSinceImprovement)
    /\ [][ /\ EvalStep => tolerance' = (IF Replaced THEN 0 ELSE tolerance + 1)
           /\ ~EvalStep => tolerance' = tolerance
         ]_vars

C4_Witness ==
    /\ tolerance = 0
    /\ h_improved = 3
    /\ h_rounds = 3
    /\ args.tolerance = 1
    /\ best_result[1].epoch = 4

AdvanceStep == h_advances' = h_advances + 1

RestartStep == h_restarts' = h_restarts + 1

\* C5: under the cyclic schedule started with periodLength=1,
\* periodMultiplier=2, periodPosition=0, the end of the first epoch is no
\* restart, the end of the second epoch is the first restart (periodPosition
\* 0, periodLength 2), and every later restart comes exactly periodLength
\* epochs after the previous one (two epochs after the first, then four).
C5_RestartSpacing ==
    [][ AdvanceStep =>
          /\ h_advances = 0 => ~RestartStep
          /\ h_advances = 1 => (RestartStep /\ Tcur' = 0 /\ Ti' = 2)
          /\ (RestartStep /\ h_restarts >= 1) => h_period + 1 = Ti
      ]_vars

\* C6: under the cyclic schedule, whenever the learning rate is computed for
\* a training batch, 0 <= periodPosition < periodLength, and the position
\* handed to the schedule (periodPosition + epochProgress) is below
\* periodLength.
C6_PositionInPeriod ==
    /\ (args.lr_schedule = "cosine" /\ pc = "train" /\ batch < n_batches)
          => (0 <= Tcur /\ Tcur < Ti)
    /\ (lr_call # None /\ args.lr_schedule = "cosine")
          => lr_call[1].num < lr_call[1].epochs * lr_call[1].den

\* C7: each end-of-epoch advance is a restart exactly when periodPosition is
\* nonzero and a multiple of periodLength, and then multiplies periodLength by
\* periodMultiplier and zeroes periodPosition; otherwise it adds 1 to
\* periodPosition and keeps periodLength. periodLength is 1, 2, 4, 8, 16, 32
\* over the first five restarts and periodMultiplier never changes.
C7_AdvanceStep ==
    /\ [][ AdvanceStep =>
             IF Tcur # 0 /\ Tcur % Ti = 0
             THEN RestartStep /\ Ti' = Ti * mult /\ Tcur' = 0
             ELSE ~RestartStep /\ Ti' = Ti /\ Tcur' = Tcur + 1
         ]_vars
    /\ [][ (~AdvanceStep => UNCHANGED <<Ti, Tcur>>) /\ mult' = mult ]_vars
    /\ [](h_restarts \in 0..5 => Ti = <<1, 2, 4, 8, 16, 32>>[h_restarts + 1])

C7_Witness ==
    /\ h_restarts = 5
    /\ Ti = 32
    /\ Tcur = 0
    /\ mult = 2

\* C8: an end-of-epoch advance made with periodPosition = 0 never restarts,
\* whatever periodLength is: not at the end of the first epoch, and not at the
\* end of the epoch that follows a restart.
C8_NoRestartAtZero ==
    [][ AdvanceStep =>
          /\ Tcur = 0 => (~RestartStep /\ Ti' = Ti /\ Tcur' = 1)
          /\ h_advances = 0 => ~RestartStep
          /\ h_period = 0 => ~RestartStep
      ]_vars

C8_Witness ==
    /\ Ti = 16
    /\ Tcur = 1
    /\ h_period = 1
    /\ h_restarts = 4

\* C9: evaluation runs in an epoch if and only if epoch mod logInterval = 0;
\* outside an evaluation round toleranceCount, bestResult, the best accuracy
\* and the best loss do not change and no evaluation record is emitted.
C9_EvaluationInterval ==
    [][ /\ (pc = "eval" /\ pc' # "eval") => (EvalStep <=> epoch % args.log_interval = 0)
        /\ EvalStep => (pc = "eval" /\ out'.evals = out.evals + 1)
        /\ ~EvalStep => /\ UNCHANGED <<tolerance, best_result, best_val_acc, best_val_loss>>
                        /\ out'.evals = out.evals
      ]_vars

C9_Witness ==
    /\ pc = "for"
    /\ epoch = 4
    /\ args.log_interval = 2
    /\ h_rounds = 2
    /\ out.evals = 2
    /\ out.epochs = 4

\* C10: under the cyclic schedule the period bookkeeping runs exactly once in
\* every trained epoch, after the last training batch and before the epoch's
\* evaluation point, evaluated or not; periodLength and periodPosition do not
\* change across the batches of an epoch.
C10_AdvanceOncePerEpoch ==
    /\ [](args.lr_schedule = "cosine"
            => h_advances = (IF pc = "train" THEN h_trained - 1 ELSE h_trained))
    /\ [][ /\ h_advances' # h_advances
              => (AdvanceStep /\ pc = "train" /\ batch = n_batches /\ pc' = "eval")
           /\ (pc = "train" /\ pc' = "train") => UNCHANGED <<Ti, Tcur>>
           /\ (args.lr_schedule = "cosine" /\ pc = "eval") => h_advances = epoch + 1
         ]_vars

C10_Witness ==
    /\ args.lr_schedule = "cosine"
    /\ args.log_interval = 2
    /\ n_batches = 2
    /\ pc = "eval"
    /\ epoch = 3
    /\ h_advances = 4

SentinelRound == val_metric'[1].accuracy = Num(BestValAccInit, 0)
                     /\ ~LT(loss', Num(BestValLossInit, 0))

\* C11 (as stated): once an evaluation round has completed, a bestResult is
\* present, whatever the accuracy and loss of that round.
C11_PresentAfterFirstRound == h_rounds >= 1 => Len(best_result) = 1

\* C11 (amended): bestResult is absent exactly as long as no round has
\* improved on the initial sentinel (accuracy 0, loss 100000): a round run
\* while it is absent leaves it absent if and only if its accuracy is 0 and its
\* loss is not below 100000, and once present it stays present, holding one
\* snapshot.
C11_PresentOnceImproved ==
    /\ [](Len(best_result) <= 1 /\ (best_result = None <=> h_improved = 0))
    /\ [][ /\ (EvalStep /\ best_result = None)
                => (best_result' = None <=> SentinelRound)
           /\ best_result # None => best_result' # None
         ]_vars

C11_Witness ==
    /\ h_rounds = 2
    /\ h_improved = 2
    /\ best_result # None
    /\ best_result[1].epoch = 2
    /\ best_val_acc = Num(BestValAccInit, 0)

\* C12 (as stated): in the scenario maxEpochs=5, toleranceLimit=1,
\* logInterval=1, accuracies [0.5, 0.6, 0.6, 0.6], losses [1.0, 0.8, 0.8, 0.9]:
\* epochs 0 and 1 improve, epoch 2 does not, toleranceCount is 1 after epoch 2
\* and the run halts before epoch 3 begins.
C12_HaltsBeforeEpoch3 ==
    /\ (pc = "for" /\ epoch = 1) => (h_improved = 1 /\ tolerance = 0)
    /\ (pc = "for" /\ epoch = 2) => (h_improved = 2 /\ tolerance = 0)
    /\ (pc = "for" /\ epoch = 3) => (h_improved = 2 /\ tolerance = 1)
    /\ h_trained <= 3

\* C12 (amended): epochs 0 and 1 improve, epoch 2 does not and leaves
\* toleranceCount at 1, which the limit 1 still tolerates: epoch 3 is trained
\* too, does not improve, leaves toleranceCount at 2, and the run halts before
\* epoch 4 begins with the snapshot of epoch 1 as bestResult.
C12_HaltsBeforeEpoch4 ==
    /\ (pc = "for" /\ epoch = 1) => (h_improved = 1 /\ tolerance = 0)
    /\ (pc = "for" /\ epoch = 2) => (h_improved = 2 /\ tolerance = 0)
    /\ (pc = "for" /\ epoch = 3) => (h_improved = 2 /\ tolerance = 1)
    /\ (pc = "for" /\ epoch = 4) => (h_improved = 2 /\ tolerance = 2)
    /\ h_trained <= 4
    /\ pc = "done" => /\ epoch = 4
                      /\ h_trained = 4
                      /\ h_rounds = 4
                      /\ best_result[1].epoch = 1

C12_Witness ==
    /\ pc = "done"
    /\ h_trained = 4
    /\ tolerance = 2
    /\ out.final = <<best_result>>

\* C13: the loop ends by early stop or by exhausting maxEpochs, and either
\* way the run goes on to the one completed state, where it has emitted the
\* final bestResult once, after every epoch and evaluation record; what it
\* emits is the snapshot of the last improving round (its epoch, its loss and
\* accuracy as written), or the absent value if no round improved on the
\* initial sentinel.
C13_Completion ==
    /\ [](pc \in {"for", "train", "eval", "after", "done"})
    /\ [](pc # "done" => (ENABLED Next /\ out.final = None))
    /\ [](pc = "done" =>
            /\ out.final = <<best_result>>
            /\ out.epochs = h_trained
            /\ out.evals = h_rounds
            /\ (best_result = None <=> h_improved = 0)
            /\ best_result # None =>
                 /\ best_result[1].epoch = (h_improved - 1) * args.log_interval
                 /\ best_result[1].val_loss = RoundNum(best_val_loss)
                 /\ best_result[1].val_metric.accuracy = RoundNum(best_val_acc))
    /\ [][pc = "done" => FALSE]_vars
    /\ [][pc' = "done" => pc = "after"]_vars
    /\ <>(pc = "done")

C13_Witness ==
    /\ pc = "done"
    /\ epoch < args.epochs
    /\ epoch > 0
    /\ h_improved = 0
    /\ out.final = <<None>>
    /\ out.evals = 2

TrainingBatchesDone ==
    IF pc = "train" THEN (h_trained - 1) * n_batches + batch ELSE h_trained * n_batches

BatchCalls == <<"set_lr", "zero_grad", "step">>

\* C14: the optimizer calls are, batch for batch, one learning-rate set, then
\* one zeroGradients, then one step, for every training batch and nothing
\* else: a validation or test pass makes no optimizer call.
C14_OptimizerCalls ==
    /\ [](/\ Len(opt_calls) = Len(BatchCalls) * TrainingBatchesDone
          /\ \A i \in 1..Len(opt_calls) :
                opt_calls[i] = BatchCalls[((i - 1) % Len(BatchCalls)) + 1])
    /\ [][ /\ EvalStep => opt_calls' = opt_calls
           /\ opt_calls' # opt_calls
                => (pc = "train" /\ batch' = batch + 1
                      /\ opt_calls' = opt_calls \o BatchCalls)
         ]_vars

C14_Witness ==
    /\ pc = "for"
    /\ h_rounds = 2
    /\ n_batches = 2
    /\ Len(opt_calls) = 12

\* C15: under a non-cyclic schedule the progress handed to the schedule at
\* each training batch is (epoch + epochProgress) / maxEpochs, lies in [0, 1),
\* grows strictly from each batch to the next over the whole run, and the
\* cyclic state is never bound, read or advanced.
C15_RunProgress ==
    /\ [](args.lr_schedule # "cosine" =>
            /\ Ti = Unbound /\ mult = Unbound /\ Tcur = Unbound
            /\ h_advances = 0
            /\ lr_call # None =>
                 /\ lr_call[1].epochs = Unbound
                 /\ 0 <= lr_call[1].num
                 /\ lr_call[1].num < lr_call[1].den)
    /\ [][ (args.lr_schedule # "cosine" /\ lr_call' # lr_call) =>
             /\ lr_call'[1].num * (n_batches * args.epochs)
                   = (epoch * n_batches + batch) * lr_call'[1].den
             /\ lr_call # None
                   => lr_call[1].num * lr_call'[1].den < lr_call'[1].num * lr_call[1].den
         ]_vars

C15_Witness ==
    /\ args.lr_schedule = "constant"
    /\ args.epochs = 5
    /\ n_batches = 2
    /\ epoch = 2
    /\ lr_call # None
    /\ lr_call[1].num = 5
    /\ lr_call[1].den = 10

\* C16: every training batch runs with the model in training mode and every
\* validation or test pass with the model in evaluation mode, in every epoch:
\* the evaluation mode of a round is gone when the next epoch trains.
C16_Modes ==
    /\ pc = "train" => mode = "train"
    /\ h_fwd.train = (IF opt.step > 0 THEN <<"train">> ELSE None)
    /\ h_fwd.eval = (IF h_rounds > 0 THEN <<"eval">> ELSE None)

C16_Witness ==
    /\ pc = "train"
    /\ epoch = 1
    /\ batch = 1
    /\ h_rounds = 1
    /\ mode = "train"
    /\ h_fwd = [train |-> <<"train">>, eval |-> <<"eval">>]

\* C17 (as stated): a present bestResult has exactly the tracked best
\* accuracy and loss, which are the optimum (highest accuracy, then lowest
\* loss) of all rounds so far; its epoch is the earliest round with that
\* optimum and its test metrics are that round's; the best accuracy never
\* decreases.
C17_SnapshotIsOptimum ==
    /\ [](best_result # None =>
            /\ best_result[1].val_metric.accuracy = best_val_acc
            /\ best_result[1].val_loss = best_val_loss
            /\ best_val_acc = h_opt[1].acc
            /\ best_val_loss = h_opt[1].loss
            /\ best_result[1].epoch = h_opt[1].epoch
            /\ best_result[1].test_metric.accuracy = h_opt[1].test)
    /\ [][~LT(best_val_acc', best_val_acc)]_vars

\* C17 (amended): the tracked best accuracy and loss are the optimum of all
\* rounds so far, and a present bestResult holds that optimum's round: its
\* epoch (the earliest with the optimum) and its loss, accuracy and test
\* metrics as written with five decimals; the best accuracy never decreases.
C17_SnapshotIsRoundedOptimum ==
    /\ [](best_result # None =>
            /\ best_result[1].val_metric.accuracy = RoundNum(best_val_acc)
            /\ best_result[1].val_loss = RoundNum(best_val_loss)
            /\ best_val_acc = h_opt[1].acc
            /\ best_val_loss = h_opt[1].loss
            /\ best_result[1].epoch = h_opt[1].epoch
            /\ best_result[1].test_metric.accuracy = RoundNum(h_opt[1].test))
    /\ [][~LT(best_val_acc', best_val_acc)]_vars

C17_Witness ==
    /\ best_result # None
    /\ h_rounds = 3
    /\ best_result[1].epoch = 1
    /\ best_val_loss = Num(0, 8 * (Scale \div 10) + 4)
    /\ best_result[1].val_loss = Num(0, 8 * (Scale \div 10))
    /\ best_val_acc = Num(0, 6 * (Scale \div 10) + 4)

\* C18: with logInterval L >= 1 and toleranceLimit T, epoch 0 is evaluated
\* whenever it is trained, and after an improving round at epoch e at most
\* (T+1)*L further epochs are trained.
C18_EpochBound ==
    /\ [](best_result # None
            => h_trained - (best_result[1].epoch + 1)
                  <= (args.tolerance + 1) * args.log_interval)
    /\ [](epoch >= 1 => h_rounds >= 1)
    /\ [][(pc = "eval" /\ epoch = 0 /\ pc' # "eval") => EvalStep]_vars

C18_Witness ==
    /\ args.log_interval = 2
    /\ args.tolerance = 1
    /\ best_result # None
    /\ best_result[1].epoch = 0
    /\ h_trained = 5
    /\ tolerance = 2

====
